---------------------------- MODULE Spec2Model ----------------------------
(***************************************************************************)
(* Model of src/utils.py (boschresearch/GP_tutorial): beautify_plot, which *)
(* styles a matplotlib axis, and contours, which evaluates a bivariate     *)
(* normal density on a fixed 100 x 100 grid.                               *)
(*                                                                         *)
(* Real numbers are held exactly where the code's values are rational:     *)
(* a grid coordinate is the numerator of a fraction over Den = num - 1,    *)
(* so linspace(-3, 3, 100)[k] = (-297 + 6k)/99 is the integer -297 + 6k.   *)
(* Density values are fixed-point numbers with FxScale units per 1; a      *)
(* value that is NaN or infinite is the marker NonFinite.                  *)
(* Arrays keep Python's 0-based indices: an array is a function on 0..n-1. *)
(***************************************************************************)
EXTENDS Integers, Sequences, FiniteSets, TLC

VARIABLES
    axes,      \* the axes that exist: sequence of [spines, xlabel, ylabel]
    current,   \* pyplot's current axes (index into axes), 0 when there is none
    lastCall,  \* <<ax, xlabel, ylabel>> of the last beautify_plot call, <<>> before
    repeated,  \* TRUE when the last beautify_plot call repeated the one before it
    pc,        \* position of contours: idle, L35 .. L40, done, raised
    mu,        \* contours argument mu
    Sigma,     \* contours argument Sigma
    x1,        \* contours local x1 (1-D after line 35, 2-D after line 37)
    x2,        \* contours local x2
    x,         \* contours local x (line 38)
    z,         \* contours local z (line 39)
    ret,       \* <<x1, x2, z>> once contours has returned, <<>> otherwise
    err,       \* the exception contours raised, "none" otherwise
    seen       \* <<mu, Sigma, ret, err>> of every finished contours call

plot == <<axes, current>>
hist == <<lastCall, repeated>>
locals == <<x1, x2, x, z>>
call == <<pc, mu, Sigma, locals, ret, err>>
vars == <<plot, hist, call, seen>>

None == "None"

-----------------------------------------------------------------------------
(* numpy as contours uses it (src/utils.py lines 35-39)                     *)

NumSteps == 100
Lo == -3
Hi == 3
\* Grid coordinates are numerators over Den.
Den == NumSteps - 1

\* np.linspace(start, stop) with num left to its default of 50.
linspaceDefaultNum(start, stop, num) ==
    [k \in 0..49 |-> start * (num - 1) + k * (stop - start)]

\* np.linspace(start, stop, num): start + k * (stop - start)/(num - 1), k = 0..num-1,
\* as numerators over num - 1.
linspace(start, stop, num) ==
    [k \in 0..(num - 1) |-> start * (num - 1) + k * (stop - start)]

Size(a) == Cardinality(DOMAIN a)

\* ndarray.shape of a 2-D array.
Shape(M) == <<Size(M), Size(M[0])>>

\* The shape of a 2-D argument given as a tuple of rows.
Shape2(M) == <<Len(M), Len(M[1])>>

\* np.meshgrid(a, b, indexing='ij'): both results have shape (len(a), len(b));
\* the first varies along rows, the second along columns.
meshgridIJ(a, b) ==
    << [i \in DOMAIN a |-> [j \in DOMAIN b |-> a[i]]],
       [i \in DOMAIN a |-> [j \in DOMAIN b |-> b[j]]] >>

\* np.meshgrid(a, b) with the default indexing='xy': both results have shape
\* (len(b), len(a)); the first holds a in every row, the second b in every column.
meshgrid(a, b) ==
    << [i \in DOMAIN b |-> [j \in DOMAIN a |-> a[j]]],
       [i \in DOMAIN b |-> [j \in DOMAIN a |-> b[i]]] >>

\* ndarray.flat: the elements in row-major (C) order.
Flat(M) ==
    LET nc == Size(M[0])
    IN  [p \in 0..(Size(M) * nc - 1) |-> M[p \div nc][p % nc]]

\* np.column_stack([c1, c2]): row p is (c1[p], c2[p]).
column_stack(c1, c2) == [p \in DOMAIN c1 |-> <<c1[p], c2[p]>>]

\* ndarray.reshape(shape, order='F') of a 1-D array: column-major order.
reshapeF(v, shape) ==
    [i \in 0..(shape[1] - 1) |-> [j \in 0..(shape[2] - 1) |-> v[j * shape[1] + i]]]

\* ndarray.reshape(shape) of a 1-D array: row-major (C) order, the default.
reshape(v, shape) ==
    [i \in 0..(shape[1] - 1) |-> [j \in 0..(shape[2] - 1) |-> v[i * shape[2] + j]]]

-----------------------------------------------------------------------------
(* Fixed-point arithmetic for the density values                            *)

FxScale == 100 * 100
FxHalf == 100

\* n/d in fixed point, by long division two decimal digits at a time.
FxDiv(n, d) ==
    LET r1 == (n % d) * FxHalf
        r2 == (r1 % d) * FxHalf
    IN  (n \div d) * FxScale + (r1 \div d) * FxHalf + (r2 \div d)

FxMul(a, b) == (a * b) \div FxScale

\* exp(-n) for n = 0..9 in fixed point; exp(-10) is below one unit.
ExpNegInt == <<10000, 3679, 1353, 498, 183, 67, 25, 9, 3, 1>>

TaylorTerms == 8

\* exp(-f) for 0 <= f < 1 by Horner's form of the Taylor series:
\* 1 - f(1 - f/2 (1 - f/3 (...))).
RECURSIVE Horner(_, _, _)
Horner(f, k, r) ==
    IF k = 0 THEN r
    ELSE Horner(f, k - 1, FxScale - (f * r) \div (k * FxScale))

\* exp(-t) for a fixed-point t >= 0.
ExpNeg(t) ==
    LET n == t \div FxScale
    IN  IF n >= Len(ExpNegInt) THEN 0
        ELSE FxMul(ExpNegInt[n + 1], Horner(t % FxScale, TaylorTerms, FxScale))

\* The largest r in lo..hi with r * r <= n.
RECURSIVE Bisect(_, _, _)
Bisect(lo, hi, n) ==
    IF lo >= hi THEN lo
    ELSE LET mid == (lo + hi + 1) \div 2
         IN  IF mid * mid <= n THEN Bisect(mid, hi, n) ELSE Bisect(lo, mid - 1, n)

\* sqrt(d) with 1000 units per 1, for an integer d.
Sqrt3(d) == Bisect(0, 46340, d * 1000000)

\* 1/(2 pi) with 100000 units per 1.
InvTwoPi5 == 15915

-----------------------------------------------------------------------------
(* scipy.stats.multivariate_normal.pdf(x, mean, cov) as line 39 calls it,   *)
(* with the default allow_singular=False                                    *)

\* The covariance as scipy reads it: scipy.linalg.eigh(cov, lower=True) reads
\* the lower triangle only and takes the matrix to be symmetric.
Lower(cov, i, j) == IF i >= j THEN cov[i][j] ELSE cov[j][i]

Det2(cov, i, j) ==
    Lower(cov, i, i) * Lower(cov, j, j) - Lower(cov, i, j) * Lower(cov, j, i)

Det3(cov) ==
      Lower(cov, 1, 1) * (Lower(cov, 2, 2) * Lower(cov, 3, 3) - Lower(cov, 2, 3) * Lower(cov, 3, 2))
    - Lower(cov, 1, 2) * (Lower(cov, 2, 1) * Lower(cov, 3, 3) - Lower(cov, 2, 3) * Lower(cov, 3, 1))
    + Lower(cov, 1, 3) * (Lower(cov, 2, 1) * Lower(cov, 3, 2) - Lower(cov, 2, 2) * Lower(cov, 3, 1))

\* The principal minors of a square matrix of size 1, 2 or 3, and the leading ones.
PrincipalMinors(cov) ==
    LET n == Len(cov)
    IN  {Lower(cov, i, i) : i \in 1..n}
            \cup {Det2(cov, ij[1], ij[2]) : ij \in {p \in (1..n) \X (1..n) : p[1] < p[2]}}
            \cup (IF n = 3 THEN {Det3(cov)} ELSE {})

LeadingMinors(cov) ==
    {Lower(cov, 1, 1)}
        \cup (IF Len(cov) >= 2 THEN {Det2(cov, 1, 2)} ELSE {})
        \cup (IF Len(cov) = 3 THEN {Det3(cov)} ELSE {})

\* The sign of the smallest eigenvalue, as _PSD classifies it: "pd" when every
\* eigenvalue is positive, "singular" when the smallest is zero, "negative"
\* when one is negative.
EigSign(cov) ==
    IF \A m \in LeadingMinors(cov) : m > 0 THEN "pd"
    ELSE IF \A m \in PrincipalMinors(cov) : m >= 0 THEN "singular"
    ELSE "negative"

\* A value that is not a finite number (NaN or an infinity).
NonFinite == 0 - 1

\* _PSD with allow_singular=True: ValueError for a negative eigenvalue only.
PsdErrorAllowSingular(cov) ==
    IF EigSign(cov) = "negative" THEN "ValueError" ELSE "none"

\* _PSD with allow_singular=False, the default that line 39 leaves in place:
\* ValueError for a negative eigenvalue, LinAlgError ("singular matrix") for a
\* zero one.  The eigenvalue signs are decided exactly here; scipy compares
\* them with a threshold of about 2.2e-10 times the largest eigenvalue, which
\* no matrix with entries this small comes near.
PsdError(cov) ==
    CASE EigSign(cov) = "negative" -> "ValueError"
      [] EigSign(cov) = "singular" -> "LinAlgError"
      [] OTHER -> "none"

\* The exception multivariate_normal.pdf raises for points xs (rows of
\* coordinates), or "none": _process_parameters takes dim from the mean and
\* wants cov of shape (dim, dim); _PSD checks the eigenvalues; the points
\* must then have dim columns for x - mean and the product with the precision.
PdfError(xs, mean, cov) ==
    LET dim == Len(mean)
    IN  IF Shape2(cov) # <<dim, dim>> THEN "ValueError"
        ELSE IF PsdError(cov) # "none" THEN PsdError(cov)
        ELSE IF Len(xs[0]) # dim THEN "ValueError"
        ELSE "none"

\* No normalising factor: the density left as exp(-q/2).
NormMissing(det) == FxScale

\* 1/(2 pi sqrt(det)) in fixed point, rounded to nearest.
Norm(det) ==
    LET s == Sqrt3(det)
    IN  (InvTwoPi5 * FxHalf + s \div 2) \div s

\* The bivariate normal density at the point pt = (X1, X2), numerators over Den:
\* exp(-q/2) / (2 pi sqrt(det)), q = (pt - mean)^T cov^-1 (pt - mean).
Density(pt, mean, cov) ==
    LET a   == Lower(cov, 1, 1)
        b   == Lower(cov, 2, 1)
        c   == Lower(cov, 2, 2)
        det == a * c - b * b
        dx  == pt[1] - mean[1] * Den
        dy  == pt[2] - mean[2] * Den
        q   == FxDiv(c * dx * dx - 2 * b * dx * dy + a * dy * dy, Den * Den * det)
    IN  IF det <= 0 THEN NonFinite
        ELSE FxMul(ExpNeg(q \div 2), Norm(det))

\* multivariate_normal.pdf(xs, mean, cov) for arguments that raise nothing:
\* the density at every row of xs.
pdf(xs, mean, cov) ==
    [p \in DOMAIN xs |-> Density(xs[p], mean, cov)]

-----------------------------------------------------------------------------
(* matplotlib as beautify_plot uses it (src/utils.py lines 20-23)           *)
(* A plot state p is <<axes, current>>.                                     *)

SpineNames == {"top", "right", "bottom", "left"}

\* A new axes: every spine visible, both labels empty.
NewAxes == [spines |-> [s \in SpineNames |-> TRUE], xlabel |-> "", ylabel |-> ""]

\* ax.spines[name].set_visible(b)
set_visible(p, ax, name, b) ==
    <<[p[1] EXCEPT ![ax].spines[name] = b], p[2]>>

\* ax.spines[name].set_visible(not visible)
toggle_visible(p, ax, name) ==
    <<[p[1] EXCEPT ![ax].spines[name] = ~@], p[2]>>

\* plt.gca(): the current axes; when there is none, a new axes is created
\* and becomes the current one.
gca(p) ==
    IF p[2] = 0 THEN <<Append(p[1], NewAxes), Len(p[1]) + 1>> ELSE p

\* plt.xlabel(text) is gca().set_xlabel(text)
plt_xlabel(p, text) ==
    LET g == gca(p) IN <<[g[1] EXCEPT ![g[2]].xlabel = text], g[2]>>

\* plt.ylabel(text) is gca().set_ylabel(text)
plt_ylabel(p, text) ==
    LET g == gca(p) IN <<[g[1] EXCEPT ![g[2]].ylabel = text], g[2]>>

-----------------------------------------------------------------------------
(* beautify_plot(ax, xlabel=None, ylabel=None), src/utils.py lines 13-23    *)

\* plt.gca().spines["top"].set_visible(False)
Line20Gca(p, ax) == LET g == gca(p) IN set_visible(g, g[2], "top", FALSE)

\* ax.spines["top"].set_visible(False)
Line20(p, ax) == set_visible(p, ax, "top", FALSE)

\* ax.spines["right"].set_visible(not ax.spines["right"].get_visible())
Line21Toggle(p, ax) == toggle_visible(p, ax, "right")

\* ax.spines["right"].set_visible(False)
Line21(p, ax) == set_visible(p, ax, "right", FALSE)

\* if xlabel is not None: plt.xlabel(xlabel)
Line22(p, xlabel) == IF xlabel # None THEN plt_xlabel(p, xlabel) ELSE p

\* plt.ylabel(ylabel), whatever ylabel is
Line23Always(p, ylabel) == plt_ylabel(p, ylabel)

\* if ylabel is not None: plt.ylabel(ylabel)
Line23(p, ylabel) == IF ylabel # None THEN plt_ylabel(p, ylabel) ELSE p

\* The plot state after beautify_plot(ax, xlabel, ylabel) in plot state p.
beautify(p, ax, xlabel, ylabel) ==
    Line23(Line22(Line21(Line20(p, ax), ax), xlabel), ylabel)

\* One call of beautify_plot; contours is not running (the program is
\* single-threaded).
beautify_plot(ax, xlabel, ylabel) ==
    /\ pc = "idle"
    /\ ax \in 1..Len(axes)
    /\ axes' = beautify(plot, ax, xlabel, ylabel)[1]
    /\ current' = beautify(plot, ax, xlabel, ylabel)[2]
    /\ lastCall' = <<ax, xlabel, ylabel>>
    /\ repeated' = (lastCall = <<ax, xlabel, ylabel>>)
    /\ UNCHANGED <<call, seen>>

-----------------------------------------------------------------------------
(* contours(mu, Sigma), src/utils.py lines 26-40, one action per line       *)

\* The frame of contours is gone: its locals hold nothing.
DropFrame ==
    /\ x1' = <<>>
    /\ x2' = <<>>
    /\ x' = <<>>
    /\ z' = <<>>

\* The caller calls contours(m, S).
Call(m, S) ==
    /\ pc = "idle"
    /\ pc' = "L35"
    /\ mu' = m
    /\ Sigma' = S
    /\ DropFrame
    /\ ret' = <<>>
    /\ err' = "none"
    /\ UNCHANGED <<plot, hist, seen>>

\* x1 = np.linspace(-3, 3, 100)
L35 ==
    /\ pc = "L35"
    /\ x1' = linspace(Lo, Hi, NumSteps)
    /\ pc' = "L36"
    /\ UNCHANGED <<plot, hist, seen, mu, Sigma, x2, x, z, ret, err>>

\* x2 = np.linspace(-3, 3, 100)
L36 ==
    /\ pc = "L36"
    /\ x2' = linspace(Lo, Hi, NumSteps)
    /\ pc' = "L37"
    /\ UNCHANGED <<plot, hist, seen, mu, Sigma, x1, x, z, ret, err>>

\* x1, x2 = np.meshgrid(x1, x2)
L37 ==
    /\ pc = "L37"
    /\ x1' = meshgrid(x1, x2)[1]
    /\ x2' = meshgrid(x1, x2)[2]
    /\ pc' = "L38"
    /\ UNCHANGED <<plot, hist, seen, mu, Sigma, x, z, ret, err>>

\* x = np.column_stack([x1.flat, x2.flat])
L38 ==
    /\ pc = "L38"
    /\ x' = column_stack(Flat(x1), Flat(x2))
    /\ pc' = "L39"
    /\ UNCHANGED <<plot, hist, seen, mu, Sigma, x1, x2, z, ret, err>>

\* z = multivariate_normal.pdf(x, mu, Sigma).reshape(x1.shape)
\* An exception leaves contours: its frame is dropped and nothing is returned.
L39 ==
    /\ pc = "L39"
    /\ IF PdfError(x, mu, Sigma) # "none"
       THEN /\ pc' = "raised"
            /\ err' = PdfError(x, mu, Sigma)
            /\ DropFrame
       ELSE /\ pc' = "L40"
            /\ z' = reshape(pdf(x, mu, Sigma), Shape(x1))
            /\ UNCHANGED <<x1, x2, x, err>>
    /\ UNCHANGED <<plot, hist, seen, mu, Sigma, ret>>

\* plt.contour(x1, x2, z) drawn on the current axes before returning.
L40Draws ==
    /\ pc = "L40"
    /\ ret' = <<x1, x2, z>>
    /\ DropFrame
    /\ pc' = "done"
    /\ axes' = gca(plot)[1]
    /\ current' = gca(plot)[2]
    /\ UNCHANGED <<hist, seen, mu, Sigma, err>>

\* return x1, x2, z
L40 ==
    /\ pc = "L40"
    /\ ret' = <<x1, x2, z>>
    /\ DropFrame
    /\ pc' = "done"
    /\ UNCHANGED <<plot, hist, seen, mu, Sigma, err>>

\* The caller takes the result (or the exception) and goes on.
Finish ==
    /\ pc \in {"done", "raised"}
    /\ seen' = seen \cup {<<mu, Sigma, ret, err>>}
    /\ pc' = "idle"
    /\ mu' = <<>>
    /\ Sigma' = <<>>
    /\ ret' = <<>>
    /\ err' = "none"
    /\ UNCHANGED <<plot, hist, locals>>

ContoursStep == L35 \/ L36 \/ L37 \/ L38 \/ L39 \/ L40

-----------------------------------------------------------------------------
(* Plot states and arguments                                                *)

MaxAxes == 2

\* The labels a caller passes, None included.
ArgLabels == {None, "foo", "bar"}

\* n axes, their spines visible, every label lab.
Fresh(n, lab) == [a \in 1..n |-> [NewAxes EXCEPT !.xlabel = lab, !.ylabel = lab]]

NoCall ==
    /\ pc = "idle"
    /\ mu = <<>>
    /\ Sigma = <<>>
    /\ x1 = <<>>
    /\ x2 = <<>>
    /\ x = <<>>
    /\ z = <<>>
    /\ ret = <<>>
    /\ err = "none"
    /\ seen = {}

InitPlot ==
    /\ \E n \in 1..MaxAxes : \E lab \in {"", "old"} :
          /\ axes = Fresh(n, lab)
          /\ current \in 0..n
    /\ lastCall = <<>>
    /\ repeated = FALSE
    /\ NoCall

NextPlot ==
    \E ax \in 1..(MaxAxes + 1) : \E xlabel \in ArgLabels : \E ylabel \in ArgLabels :
        beautify_plot(ax, xlabel, ylabel)

SpecPlot == InitPlot /\ [][NextPlot]_vars

-----------------------------------------------------------------------------
(* Arguments of contours                                                    *)

MaxMean == 1
MaxCov == 2

Means == {<<0, 0>>, <<MaxMean, 0>>, <<0, 0 - MaxMean>>}

\* 2 x 2 matrices <<<<a, u>>, <<b, c>>>>: positive definite, singular, with a
\* negative eigenvalue; symmetric (u = b) or not.
SymmetricCovs ==
    {<<<<a, b>>, <<b, c>>>> : a \in 0..MaxCov, c \in 0..MaxCov, b \in (0 - 1)..1}
        \cup {<<<<0 - 1, 0>>, <<0, 0>>>>, <<<<0 - 1, 0>>, <<0, 0 - 1>>>>, <<<<0, 0>>, <<0, 0 - 1>>>>}

AsymmetricCovs ==
    {S \in {<<<<a, u>>, <<b, a>>>> : a \in 1..MaxCov, b \in 0..1, u \in {0, 1, MaxCov * MaxCov}} :
        S[1][2] # S[2][1]}

Covs == SymmetricCovs \cup AsymmetricCovs

Eye3 == <<<<1, 0, 0>>, <<0, 1, 0>>, <<0, 0, 1>>>>
Eye2 == <<<<1, 0>>, <<0, 1>>>>

\* Arguments of the wrong shape: <<mu, Sigma>>.
Malformed ==
    { <<<<0>>, <<<<1>>>>>>,                         \* mu of length 1, Sigma 1 x 1
      <<<<0>>, Eye2>>,                              \* mu of length 1, Sigma 2 x 2
      <<<<0, 0, 0>>, Eye2>>,                        \* mu of length 3, Sigma 2 x 2
      <<<<0, 0, 0>>, Eye3>>,                        \* mu of length 3, Sigma 3 x 3
      <<<<0, 0>>, Eye3>>,                           \* mu of length 2, Sigma 3 x 3
      <<<<0, 0>>, <<<<1>>>>>>,                      \* mu of length 2, Sigma 1 x 1
      <<<<0, 0>>, <<<<1, 0, 0>>, <<0, 1, 0>>>>>>,   \* Sigma 2 x 3
      <<<<0, 0>>, <<<<1, 0>>, <<0, 1>>, <<0, 0>>>>>> } \* Sigma 3 x 2

Inputs == (Means \X Covs) \cup Malformed

InitContours ==
    /\ axes = Fresh(1, "")
    /\ current = 1
    /\ lastCall = <<>>
    /\ repeated = FALSE
    /\ pc = "L35"
    /\ \E in \in Inputs : mu = in[1] /\ Sigma = in[2]
    /\ x1 = <<>>
    /\ x2 = <<>>
    /\ x = <<>>
    /\ z = <<>>
    /\ ret = <<>>
    /\ err = "none"
    /\ seen = {}

SpecContours == InitContours /\ [][ContoursStep]_vars

-----------------------------------------------------------------------------
(* Calls of both functions, one after the other in any order                *)

FewInputs ==
    { <<<<0, 0>>, Eye2>>,
      <<<<1, 0>>, <<<<2, 0>>, <<1, 1>>>>>>,
      <<<<0, 0>>, <<<<1, 1>>, <<1, 1>>>>>> }

Init ==
    /\ axes = Fresh(1, "")
    /\ current \in 0..1
    /\ lastCall = <<>>
    /\ repeated = FALSE
    /\ NoCall

Next ==
    \/ \E in \in FewInputs : Call(in[1], in[2])
    \/ ContoursStep
    \/ Finish
    \/ beautify_plot(1, "foo", None)

Spec == Init /\ [][Next]_vars

-----------------------------------------------------------------------------
(* Properties of contours, checked under SpecContours                       *)

Terminal == pc \in {"done", "raised"}

IsSymmetric2(S) == Shape2(S) = <<2, 2>> /\ S[1][2] = S[2][1]

\* The determinant of a 2 x 2 matrix, from all four of its entries.
Determinant2(S) == S[1][1] * S[2][2] - S[1][2] * S[2][1]

\* A valid covariance: 2 x 2, symmetric, positive definite.
IsValidSigma(S) == IsSymmetric2(S) /\ S[1][1] > 0 /\ Determinant2(S) > 0

Indices == 0..(NumSteps - 1)

IsSquareGrid(M) ==
    /\ DOMAIN M = Indices
    /\ \A i \in Indices : DOMAIN M[i] = Indices

C4_Aligned ==
    pc = "done" =>
        \A i \in Indices : \A j \in Indices :
            ret[3][i][j] = Density(<<ret[1][i][j], ret[2][i][j]>>, mu, Sigma)

C4_Witness ==
    /\ pc = "done"
    /\ mu = <<MaxMean, 0>>
    /\ ret[3][20][70] # ret[3][70][20]

IsMalformed(m, S) == Len(m) # 2 \/ Shape2(S) # <<2, 2>> \/ ~IsSymmetric2(S)

\* C5: contours with a malformed argument (mu not of length 2, Sigma not
\* 2 x 2, or Sigma 2 x 2 and not symmetric) fails with an error and returns
\* no result.
C5_MalformedRaises ==
    (Terminal /\ IsMalformed(mu, Sigma)) => (pc = "raised" /\ err # "none" /\ ret = <<>>)

\* The grid points nearest to (0, 0).
Dist2(g, ij) == g[1][ij[1]][ij[2]] * g[1][ij[1]][ij[2]] + g[2][ij[1]][ij[2]] * g[2][ij[1]][ij[2]]

Nearest(g) ==
    LET ds  == {Dist2(g, ij) : ij \in Indices \X Indices}
        min == CHOOSE d \in ds : \A e \in ds : d <= e
    IN  {ij \in Indices \X Indices : Dist2(g, ij) = min}

Abs(v) == IF v < 0 THEN 0 - v ELSE v

\* 1/(2 pi) = 0.1592 in fixed point, and the tolerance 0.001.
InvTwoPi == InvTwoPi5 \div 10
Tolerance == FxScale \div 1000

\* C6: for mu = [0, 0] and Sigma the identity, z at the grid points nearest
\* (0, 0), which lie at coordinates +-3/99, is the maximum of z and equals
\* 1/(2 pi) within tolerance.
C6_PeakAtOrigin ==
    (pc = "done" /\ mu = <<0, 0>> /\ Sigma = Eye2) =>
        \A ij \in Nearest(ret) :
            /\ Abs(ret[1][ij[1]][ij[2]]) = 3 /\ Abs(ret[2][ij[1]][ij[2]]) = 3
            /\ \A i \in Indices : \A j \in Indices : ret[3][i][j] <= ret[3][ij[1]][ij[2]]
            /\ Abs(ret[3][ij[1]][ij[2]] - InvTwoPi) <= Tolerance

C6_Witness ==
    /\ pc = "done" /\ mu = <<0, 0>> /\ Sigma = Eye2
    /\ <<49, 50>> \in Nearest(ret)
    /\ ret[3][49][50] > ret[3][48][50]

IsSingular2(S) == IsSymmetric2(S) /\ Determinant2(S) = 0

\* C9 as stated: contours with a singular 2 x 2 Sigma does not raise and
\* returns density values that are NaN or infinite.
C9_SingularReturnsNonFinite ==
    (Terminal /\ Len(mu) = 2 /\ IsSingular2(Sigma)) =>
        /\ pc = "done"
        /\ \E i \in Indices : \E j \in Indices : ret[3][i][j] = NonFinite

\* C9 as amended: contours with a symmetric singular 2 x 2 Sigma raises and
\* returns nothing: LinAlgError when Sigma is positive semi-definite,
\* ValueError when its other eigenvalue is negative.
C9_SingularRaises ==
    (Terminal /\ Len(mu) = 2 /\ IsSingular2(Sigma)) =>
        /\ pc = "raised"
        /\ ret = <<>>
        /\ err = (IF Sigma[1][1] >= 0 /\ Sigma[2][2] >= 0 THEN "LinAlgError" ELSE "ValueError")

C9_Witness ==
    /\ pc = "raised"
    /\ err = "LinAlgError"
    /\ mu = <<0, 0>>
    /\ Sigma = <<<<1, 1>>, <<1, 1>>>>

\* C10: whatever mu and Sigma are, the returned grids are the Cartesian
\* product of the axis a[k] = -3 + k * 6/99 (numerator -297 + 6k over 99),
\* k = 0..99, a[0] = -3, a[99] = 3: x1[i][j] = a[j] and x2[i][j] = a[i].
C10_Grid ==
    pc = "done" =>
        \A i \in Indices : \A j \in Indices :
            /\ ret[1][i][j] = 6 * j - 297
            /\ ret[2][i][j] = 6 * i - 297

C10_Witness ==
    /\ pc = "done"
    /\ mu # <<0, 0>>
    /\ Sigma # Eye2
    /\ ret[1][0][99] = 297
    /\ ret[2][0][99] = 0 - 297

-----------------------------------------------------------------------------
(* Properties of beautify_plot, checked under SpecPlot                      *)

\* A step that is one call of beautify_plot; lastCall' holds its arguments.
BeautifyStep == pc = "idle" /\ pc' = "idle" /\ lastCall' # <<>>

Hidden(a) == ~a.spines["top"] /\ ~a.spines["right"]

\* The labels axes number a had before the step ("" when the step created it).
XLabelBefore(a) == IF a <= Len(axes) THEN axes[a].xlabel ELSE ""
YLabelBefore(a) == IF a <= Len(axes) THEN axes[a].ylabel ELSE ""

C1Post ==
    LET ax     == lastCall'[1]
        xlabel == lastCall'[2]
        ylabel == lastCall'[3]
    IN  /\ Hidden(axes'[ax])
        /\ IF xlabel # None
           THEN current' # 0 /\ axes'[current'].xlabel = xlabel
           ELSE \A a \in 1..Len(axes') : axes'[a].xlabel = XLabelBefore(a)
        /\ IF ylabel # None
           THEN current' # 0 /\ axes'[current'].ylabel = ylabel
           ELSE \A a \in 1..Len(axes') : axes'[a].ylabel = YLabelBefore(a)
        /\ (xlabel = None /\ ylabel = None) => Len(axes') = Len(axes)

\* C1: every call of beautify_plot(ax, xlabel, ylabel) hides the top and
\* right spines of ax; a label is written (to the current axes) exactly when
\* its argument is not None: with xlabel = "foo", ylabel = None the x-label
\* becomes "foo" and no y-label changes; with None, None no label changes.
C1_LabelsIffGiven == [][BeautifyStep => C1Post]_vars

C1_Witness ==
    /\ lastCall # <<>>
    /\ lastCall[2] = "foo" /\ lastCall[3] = None
    /\ current # 0
    /\ axes[current].xlabel = "foo" /\ axes[current].ylabel = "old"
    /\ Hidden(axes[lastCall[1]])

\* C2: beautify_plot is idempotent: a call with the arguments of the call
\* just before it leaves the spines and the labels as that call left them.
C2_Idempotent == [][(BeautifyStep /\ repeated') => plot' = plot]_vars

C2_Witness ==
    /\ repeated
    /\ lastCall[2] = "foo" /\ lastCall[3] = "bar"
    /\ current # 0 /\ current # lastCall[1]
    /\ axes[current].xlabel = "foo"
    /\ Hidden(axes[lastCall[1]])

C8Post ==
    LET ax     == lastCall'[1]
        xlabel == lastCall'[2]
        ylabel == lastCall'[3]
    IN  /\ Hidden(axes'[ax])
        /\ current' = current
        /\ Len(axes') = Len(axes)
        /\ xlabel # None => axes'[current].xlabel = xlabel
        /\ ylabel # None => axes'[current].ylabel = ylabel
        /\ axes'[ax].xlabel = axes[ax].xlabel
        /\ axes'[ax].ylabel = axes[ax].ylabel
        /\ axes'[current].spines = axes[current].spines

\* C8: when the current axes is another axes than ax, beautify_plot(ax,
\* xlabel, ylabel) hides the top and right spines of ax, writes the labels
\* that are not None to the current axes, and leaves the labels of ax as
\* they were.
C8_LabelsOnCurrentAxes ==
    [][(BeautifyStep /\ current # 0 /\ lastCall'[1] # current) => C8Post]_vars

C8_Witness ==
    /\ lastCall # <<>>
    /\ current # 0 /\ lastCall[1] # current
    /\ lastCall[2] = "foo"
    /\ axes[current].xlabel = "foo"
    /\ axes[lastCall[1]].xlabel = "old"
    /\ Hidden(axes[lastCall[1]])
    /\ axes[current].spines["top"]

-----------------------------------------------------------------------------
(* Properties of contours among other calls, checked under Spec             *)

\* A step of contours, its call and the taking of its result included.
C7Step == pc # "idle" \/ pc' # "idle"

\* C7: contours is deterministic and has no side effect: a call modifies
\* neither the plot state nor mu nor Sigma, and it ends as every earlier call
\* with the same (mu, Sigma) ended, whatever was called in between.
C7_DeterministicNoSideEffect ==
    [][C7Step =>
        /\ plot' = plot
        /\ (pc # "idle" /\ pc' # "idle") => (mu' = mu /\ Sigma' = Sigma)
        /\ (pc' \in {"done", "raised"}) =>
              \A r \in seen : (r[1] = mu /\ r[2] = Sigma) => (ret' = r[3] /\ err' = r[4])
      ]_vars

C7_Witness ==
    /\ pc = "done"
    /\ Cardinality(seen) >= 2
    /\ \E r \in seen : r[1] = mu /\ r[2] = Sigma /\ r[3] = ret
    /\ lastCall # <<>>

=============================================================================
